---- MODULE Spec2Model ----
(***************************************************************************)
(* Event scheduler: EventService.scheduleEvent / updateEventStatus, the    *)
(* BullMQ eventWorker processor, and the Redis-backed WebSocket fan-out.   *)
(*                                                                         *)
(* One ScheduledItem (row of "events") per id; the BullMQ job of an item   *)
(* carries jobId = event id.  Every await of the handlers is a step of its *)
(* own, so that handlers of different processes interleave as they do at   *)
(* run time.  updateEventStatus has a single await (the store update); the *)
(* broadcast that follows it is synchronous and belongs to the same step.  *)
(***************************************************************************)
EXTENDS Integers, Sequences, FiniteSets, TLC

\* ------------------------------------------------------------------ bounds
\* items scheduled in one run
MaxItems == 2
\* re-releases of a stalled job the queue performs in a run with one item
MaxStalls == 4
\* re-releases of a stalled job the queue performs in a run with two items
MaxSharedStalls == 1

\* longest recipientEmail string tried in a request
MaxEmailLen == 5

\* ------------------------------------------------------- program constants
MAX_RETRIES == 3
RETRY_DELAY_MS == 1000

Ids == 1..MaxItems
\* sendAt - Date.now() at the time scheduleEvent computes the delay (ms)
SendAtOffsets == {-1000, 0, 2000}
Servers == {"s1", "s2"}
Observers == {"o1", "o2"}
\* the process that runs the event worker
Worker == "worker"
\* the server process that takes the POST /events requests
ApiServer == "s1"
Procs == Servers \cup {Worker}

VARIABLES
    events,      \* Status Store: id -> [status, retryCount]; status "NONE" = no row
    schedPc,     \* position of the scheduleEvent call that creates id
    jobs,        \* Delay Queue: id -> [state, delay]
    wpc,         \* position of the executor running the job of id
    cur,         \* event.retryCount as read by getEventDetails in the attempt
    stallsLeft,  \* re-releases the queue may still perform
    deliveries,  \* id -> number of times the job was handed to an executor
    sends,       \* id -> outcomes of simulateSendMessage, oldest first
    hist,        \* id -> the states the Status Store record went through
    published,   \* id -> payloads passed to broadcastEventUpdate, in order
    lastDelay,   \* id -> retryDelay computed by the latest failed attempt (-1: none)
    sendAtOffset,\* id -> sendAt - Date.now() as scheduleEvent computed it
    running,     \* id -> number of executors inside the processor for the job
    subscribed,  \* server processes whose redisSubscriber is subscribed
    publisher,   \* processes (servers, worker) whose redisPublisher is set
    inbox,       \* server -> bus messages received and not yet relayed
    clients,     \* server -> connectedClients
    ready,       \* observer -> readyState
    home,        \* observer -> the server it connects to
    received,    \* observer -> frames received, oldest first
    early,       \* observer -> it connected before any item was scheduled
    shutdown,    \* worker process: position of its signal handler, and the
                 \* items that were in an attempt when the signal arrived
    request,     \* id -> body of the POST /events request, once received
    response     \* id -> HTTP status the controller answered (0: none yet)

coreVars == <<events, schedPc, jobs, wpc, cur, stallsLeft, deliveries, sends,
              hist, published, lastDelay, sendAtOffset, running>>
busVars == <<subscribed, publisher, inbox, clients, ready, home, received, early>>
extVars == <<shutdown, request, response>>
vars == <<events, schedPc, jobs, wpc, cur, stallsLeft, deliveries, sends,
          hist, published, lastDelay, sendAtOffset, running, subscribed,
          publisher, inbox, clients, ready, home, received, early, shutdown,
          request, response>>

\* ------------------------------------------------------------ Status Store
NoEvent ==
    [status |-> "NONE", retryCount |-> 0, message |-> "", recipientEmail |-> "",
     sendAt |-> "", createdAt |-> ""]

\* the row createEvent writes: message, recipientEmail and sendAt as given,
\* createdAt @default(now()), status @default(SCHEDULED), retryCount
\* @default(0); the row's id is its key in events
CreateEvent ==
    [status |-> "SCHEDULED", retryCount |-> 0, message |-> "message",
     recipientEmail |-> "recipientEmail", sendAt |-> "sendAt",
     createdAt |-> "createdAt"]

\* retryCount argument left out of the call
Undefined == -1

\* variant: an update without a retryCount counts as one more retry
UpdateEventCounting(e, status, retryCount) ==
    [e EXCEPT !.status = status,
              !.retryCount = IF retryCount # Undefined THEN retryCount
                             ELSE e.retryCount + 1]

\* variant: the row is replaced by the update data
UpdateEventReplacing(e, status, retryCount) ==
    [NoEvent EXCEPT !.status = status,
                    !.retryCount = IF retryCount # Undefined THEN retryCount
                                   ELSE e.retryCount]

\* updateData = { status } plus retryCount when one is passed; the other
\* columns of the row are not part of the update
UpdateEvent(e, status, retryCount) ==
    [e EXCEPT !.status = status,
              !.retryCount = IF retryCount # Undefined THEN retryCount
                             ELSE e.retryCount]

\* the payload broadcastEventUpdate is called with (fields of the given event)
Payload(id, e) ==
    [id |-> id, message |-> e.message, recipientEmail |-> e.recipientEmail,
     sendAt |-> e.sendAt, status |-> e.status, retryCount |-> e.retryCount,
     createdAt |-> e.createdAt]

\* ------------------------------------------------------------- Delay Queue
NoJob == [state |-> "absent", delay |-> 0]

Max(a, b) == IF a > b THEN a ELSE b

\* variant: the computed difference is used as it is
EffectiveDelayRaw(delay) == delay

\* effectiveDelay = Math.max(0, delay)
EffectiveDelay(delay) == Max(0, delay)

\* eventQueue.add(..., {delay, jobId}): delayed when delay > 0, else waiting
AddJob(delay) ==
    [state |-> IF delay > 0 THEN "delayed" ELSE "wait", delay |-> delay]

\* --------------------------------------------------------- retry decision
RECURSIVE Pow2(_)
Pow2(n) == IF n = 0 THEN 1 ELSE 2 * Pow2(n - 1)

\* variant: the ceiling test lets one more retry through
CanRetryOffByOne(currentRetryCount) == currentRetryCount <= MAX_RETRIES

\* variant: the ceiling test gives up one retry early
CanRetryEarlyStop(currentRetryCount) == currentRetryCount < MAX_RETRIES - 1

\* currentRetryCount < MAX_RETRIES
CanRetry(currentRetryCount) == currentRetryCount < MAX_RETRIES

\* variant: a failed send leaves the count as it was
NextRetryCountSame(currentRetryCount) == currentRetryCount

\* variant: a failed send counts twice
NextRetryCountDouble(currentRetryCount) == currentRetryCount + 2

\* nextRetryCount = currentRetryCount + 1
NextRetryCount(currentRetryCount) == currentRetryCount + 1

\* retryDelay = RETRY_DELAY_MS * Math.pow(2, currentRetryCount)
RetryDelay(currentRetryCount) == RETRY_DELAY_MS * Pow2(currentRetryCount)

\* ------------------------------------------------------------------ fan-out
\* broadcastToClients wraps the event data in a frame
Frame(eventData) == [type |-> "eventUpdate", data |-> eventData]

\* variant: the message reaches one subscribed process only
PublishToOne(eventData) ==
    inbox' = [s \in Servers |->
                IF subscribed # {} /\ s = (CHOOSE t \in subscribed : TRUE)
                THEN Append(inbox[s], eventData)
                ELSE inbox[s]]

\* redisPublisher.publish('websocket:broadcast', ...): every subscribed
\* process gets the message, in publication order
Publish(eventData) ==
    inbox' = [s \in Servers |->
                IF s \in subscribed THEN Append(inbox[s], eventData)
                ELSE inbox[s]]

\* variant: the frame is sent to every registered client
BroadcastToClientsAll(s, eventData) ==
    received' = [o \in Observers |->
                   IF o \in clients[s]
                   THEN Append(received[o], Frame(eventData))
                   ELSE received[o]]

\* broadcastToClients: send the frame to every client whose readyState is OPEN
BroadcastToClients(s, eventData) ==
    received' = [o \in Observers |->
                   IF o \in clients[s] /\ ready[o] = "OPEN"
                   THEN Append(received[o], Frame(eventData))
                   ELSE received[o]]

\* variant: the payload is published and also sent to the local clients
BroadcastEventUpdateBothRoutes(proc, id, e) ==
    /\ published' = [published EXCEPT ![id] = Append(@, Payload(id, e))]
    /\ Publish(Payload(id, e))
    /\ IF proc \in Servers
       THEN BroadcastToClients(proc, Payload(id, e))
       ELSE received' = received

\* broadcastEventUpdate called in process proc: with a redisPublisher the
\* payload goes to the bus, without one it goes to the process's own clients
\* (connectedClients is null in the worker: nothing is sent)
BroadcastEventUpdate(proc, id, e) ==
    /\ published' = [published EXCEPT ![id] = Append(@, Payload(id, e))]
    /\ IF proc \in publisher
       THEN /\ Publish(Payload(id, e))
            /\ received' = received
       ELSE /\ inbox' = inbox
            /\ IF proc \in Servers
               THEN BroadcastToClients(proc, Payload(id, e))
               ELSE received' = received

\* EventModel.updateEvent rejects when the row does not exist
UpdateRejects(e) == e = NoEvent

\* EventService.updateEventStatus, called by the worker only: store update,
\* then broadcast of the updated event
UpdateEventStatus(id, status, retryCount) ==
    LET updatedEvent == UpdateEvent(events[id], status, retryCount) IN
    /\ ~UpdateRejects(events[id])
    /\ events' = [events EXCEPT ![id] = updatedEvent]
    /\ hist' = [hist EXCEPT ![id] = Append(@, updatedEvent)]
    /\ BroadcastEventUpdate(Worker, id, updatedEvent)

\* ---------------------------------------------------------- worker process
\* the worker process before any signal
WorkerUp == [pc |-> "up", inFlight |-> {}]

\* ---------------------------------------------------------------- requests
\* JavaScript values of the fields of req.body: t is the typeof, v the
\* characters of a string (or the digits of a number)
JsUndefined == [t |-> "undefined", v |-> <<>>]
JsNumber(v) == [t |-> "number", v |-> v]
JsString(v) == [t |-> "string", v |-> v]

\* !x
Falsy(x) ==
    \/ x.t = "undefined"
    \/ x.t = "number" /\ x.v = <<"0">>
    \/ x.t = "string" /\ x.v = <<>>

EmailChars == {"a", "@", ".", " "}

\* /^[^\s@]+@[^\s@]+\.[^\s@]+$/.test(s): some "@" at i and some "." at j split
\* s into three non-empty parts, and no other character is "@" or a space
EmailPattern(s) ==
    \E i, j \in 1..Len(s) :
        /\ 1 < i /\ i + 1 < j /\ j < Len(s)
        /\ s[i] = "@" /\ s[j] = "."
        /\ \A k \in (1..Len(s)) \ {i} : s[k] \notin {"@", " "}

\* isNaN(new Date(s).getTime()) for the send_at strings tried
InvalidDate(s) == s # <<"2025-07-14T15:30:00Z">>

MessageValues ==
    {JsUndefined, JsNumber(<<"5">>), JsString(<<>>), JsString(<<"h", "i">>)}
EmailValues ==
    {JsUndefined, JsNumber(<<"5">>)}
        \cup {JsString(s) : s \in UNION {[1..n -> EmailChars] : n \in 0..MaxEmailLen}}
SendAtValues ==
    {JsUndefined, JsNumber(<<"5">>), JsString(<<>>), JsString(<<"tomorrow">>),
     JsString(<<"2025-07-14T15:30:00Z">>)}

\* the request bodies tried
Bodies == [message : MessageValues, recipientEmail : EmailValues,
           send_at : SendAtValues]

\* no POST /events request was received for the item
NoRequest ==
    [message |-> [t |-> "none", v |-> <<>>],
     recipientEmail |-> [t |-> "none", v |-> <<>>],
     send_at |-> [t |-> "none", v |-> <<>>]]

\* variant: send_at is not parsed before the service is called
ValidateUnparsed(body) ==
    IF Falsy(body.message) \/ body.message.t # "string" THEN 400
    ELSE IF \/ Falsy(body.recipientEmail)
            \/ body.recipientEmail.t # "string"
            \/ ~EmailPattern(body.recipientEmail.v) THEN 400
    ELSE IF Falsy(body.send_at) \/ body.send_at.t # "string" THEN 400
    ELSE 0

\* the input validation of EventController.scheduleEvent: the status of the
\* response it sends, or 0 when the request goes on to the service
Validate(body) ==
    IF Falsy(body.message) \/ body.message.t # "string" THEN 400
    ELSE IF \/ Falsy(body.recipientEmail)
            \/ body.recipientEmail.t # "string"
            \/ ~EmailPattern(body.recipientEmail.v) THEN 400
    ELSE IF Falsy(body.send_at) \/ body.send_at.t # "string" THEN 400
    ELSE IF InvalidDate(body.send_at.v) THEN 400
    ELSE 0

\* -------------------------------------------------------------------- Init
InitCore(items, stalls) ==
    /\ events = [i \in Ids |-> NoEvent]
    /\ schedPc = [i \in Ids |-> IF i <= items THEN "idle" ELSE "off"]
    /\ jobs = [i \in Ids |-> NoJob]
    /\ wpc = [i \in Ids |-> "idle"]
    /\ cur = [i \in Ids |-> 0]
    /\ stallsLeft = stalls
    /\ deliveries = [i \in Ids |-> 0]
    /\ sends = [i \in Ids |-> <<>>]
    /\ hist = [i \in Ids |-> <<>>]
    /\ published = [i \in Ids |-> <<>>]
    /\ lastDelay = [i \in Ids |-> -1]
    /\ sendAtOffset = [i \in Ids |-> 0]
    /\ running = [i \in Ids |-> 0]
    /\ shutdown = WorkerUp
    /\ request = [i \in Ids |-> NoRequest]
    /\ response = [i \in Ids |-> 0]

\* the server each observer's WebSocket URL points to
HomeOf(o) == IF o = "o1" THEN "s1" ELSE "s2"

InitBusWith(pubs, subs) ==
    /\ subscribed = subs
    /\ publisher = pubs
    /\ inbox = [s \in Servers |-> <<>>]
    /\ clients = [s \in Servers |-> {}]
    /\ ready = [o \in Observers |-> "NONE"]
    /\ home = [o \in Observers |-> HomeOf(o)]
    /\ received = [o \in Observers |-> <<>>]
    /\ early = [o \in Observers |-> FALSE]

\* stalled-job re-releases explored in a run that schedules n items
StallBudget(n) ==
    IF n = 1 THEN MaxStalls ELSE IF n = 2 THEN MaxSharedStalls ELSE 0

\* every process has called initializeWebSocketRedis; subs are the servers
\* whose subscription is established
InitBus(subs) == InitBusWith(Procs, subs)

Init == \E n \in 1..MaxItems : InitCore(n, StallBudget(n)) /\ InitBus({})

\* =============================================================== Scheduler
\* EventModel.createEvent succeeds: row created with the schema defaults
ScheduleCreate(id) ==
    /\ schedPc[id] = "idle"
    /\ \A j \in Ids : j < id => schedPc[j] # "idle"
    /\ events' = [events EXCEPT ![id] = CreateEvent]
    /\ hist' = [hist EXCEPT ![id] = <<CreateEvent>>]
    /\ schedPc' = [schedPc EXCEPT ![id] = "created"]
    /\ UNCHANGED <<extVars, jobs, wpc, cur, stallsLeft, deliveries, sends, published,
                   lastDelay, busVars,
                   sendAtOffset, running>>

\* variant: the create reports a failure after the row was written
ScheduleCreateFailsLate(id) ==
    /\ schedPc[id] = "idle"
    /\ \A j \in Ids : j < id => schedPc[j] # "idle"
    /\ events' = [events EXCEPT ![id] = CreateEvent]
    /\ schedPc' = [schedPc EXCEPT ![id] = "failed"]
    /\ UNCHANGED <<extVars, jobs, wpc, cur, stallsLeft, deliveries, sends, hist,
                   published, lastDelay, busVars,
                   sendAtOffset, running>>

\* EventModel.createEvent throws: catch, throw "Failed to schedule event."
ScheduleCreateFails(id) ==
    /\ schedPc[id] = "idle"
    /\ \A j \in Ids : j < id => schedPc[j] # "idle"
    /\ schedPc' = [schedPc EXCEPT ![id] = "failed"]
    /\ UNCHANGED <<extVars, events, jobs, wpc, cur, stallsLeft, deliveries, sends, hist,
                   published, lastDelay, busVars,
                   sendAtOffset, running>>

\* variant: the job is added without waiting for the create
ScheduleEnqueueEarly(id, offset) ==
    /\ schedPc[id] = "idle"
    /\ jobs' = [jobs EXCEPT ![id] = AddJob(EffectiveDelay(offset))]
    /\ sendAtOffset' = [sendAtOffset EXCEPT ![id] = offset]
    /\ schedPc' = [schedPc EXCEPT ![id] = "enqueued"]
    /\ UNCHANGED <<extVars, events, wpc, cur, stallsLeft, deliveries, sends, hist,
                   published, lastDelay, busVars,
                   running>>

\* eventQueue.add resolves; offset = newEvent.sendAt.getTime() - Date.now()
ScheduleEnqueue(id, offset) ==
    /\ schedPc[id] = "created"
    /\ jobs' = [jobs EXCEPT ![id] = AddJob(EffectiveDelay(offset))]
    /\ sendAtOffset' = [sendAtOffset EXCEPT ![id] = offset]
    /\ schedPc' = [schedPc EXCEPT ![id] = "enqueued"]
    /\ UNCHANGED <<extVars, events, wpc, cur, stallsLeft, deliveries, sends, hist,
                   published, lastDelay, busVars,
                   running>>

\* variant: the created row is removed when the job cannot be added
ScheduleEnqueueFailsRollback(id) ==
    /\ schedPc[id] = "created"
    /\ schedPc' = [schedPc EXCEPT ![id] = "failed"]
    /\ events' = [events EXCEPT ![id] = NoEvent]
    /\ UNCHANGED <<extVars, jobs, wpc, cur, stallsLeft, deliveries, sends, hist,
                   published, lastDelay, busVars,
                   sendAtOffset, running>>

\* eventQueue.add rejects: catch, throw "Failed to schedule event."
ScheduleEnqueueFails(id) ==
    /\ schedPc[id] = "created"
    /\ schedPc' = [schedPc EXCEPT ![id] = "failed"]
    /\ UNCHANGED <<extVars, events, jobs, wpc, cur, stallsLeft, deliveries, sends, hist,
                   published, lastDelay, busVars,
                   sendAtOffset, running>>

\* broadcastEventUpdate(newEvent) with the object createEvent returned
ScheduleBroadcast(id) ==
    /\ schedPc[id] = "enqueued"
    /\ BroadcastEventUpdate(ApiServer, id, CreateEvent)
    /\ schedPc' = [schedPc EXCEPT ![id] = "done"]
    /\ UNCHANGED <<extVars, events, jobs, wpc, cur, stallsLeft, deliveries, sends, hist,
                   lastDelay, subscribed, publisher, clients, ready, home, early,
                   sendAtOffset, running>>

\* ============================================================= Delay Queue
\* the delay of a delayed job has elapsed
JobRelease(id) ==
    /\ jobs[id].state = "delayed"
    /\ jobs' = [jobs EXCEPT ![id].state = "wait"]
    /\ UNCHANGED <<extVars, events, schedPc, wpc, cur, stallsLeft, deliveries, sends,
                   hist, published, lastDelay, busVars,
                   sendAtOffset, running>>

\* variant: a job is handed out again while an executor still holds it
WorkerPickupUnlocked(id) ==
    /\ jobs[id].state \in {"wait", "active"}
    /\ running[id] < 2
    /\ jobs' = [jobs EXCEPT ![id].state = "active"]
    /\ wpc' = [wpc EXCEPT ![id] = "start"]
    /\ deliveries' = [deliveries EXCEPT ![id] = @ + 1]
    /\ running' = [running EXCEPT ![id] = @ + 1]
    /\ UNCHANGED <<extVars, events, schedPc, cur, stallsLeft, sends, hist, published,
                   lastDelay, sendAtOffset, busVars>>

\* variant: handing a job out again counts as a retry of the item
WorkerPickupCounting(id) ==
    /\ jobs[id].state = "wait"
    /\ wpc[id] = "idle"
    /\ jobs' = [jobs EXCEPT ![id].state = "active"]
    /\ wpc' = [wpc EXCEPT ![id] = "start"]
    /\ deliveries' = [deliveries EXCEPT ![id] = @ + 1]
    /\ running' = [running EXCEPT ![id] = @ + 1]
    /\ events' = [events EXCEPT ![id].retryCount =
                     IF deliveries[id] > 0 THEN @ + 1 ELSE @]
    /\ UNCHANGED <<extVars, schedPc, cur, stallsLeft, sends, hist, published,
                   lastDelay, busVars,
                   sendAtOffset>>

\* a waiting job is handed to one executor of a worker that is not closing
WorkerPickup(id) ==
    /\ jobs[id].state = "wait"
    /\ wpc[id] = "idle"
    /\ shutdown.pc = "up"
    /\ jobs' = [jobs EXCEPT ![id].state = "active"]
    /\ wpc' = [wpc EXCEPT ![id] = "start"]
    /\ deliveries' = [deliveries EXCEPT ![id] = @ + 1]
    /\ running' = [running EXCEPT ![id] = @ + 1]
    /\ UNCHANGED <<extVars, events, schedPc, cur, stallsLeft, sends, hist, published,
                   lastDelay, busVars,
                   sendAtOffset>>

\* the executor of an active job died at one of its awaits; the queue
\* detects the stalled job and moves it back to wait
Stall(id) ==
    /\ jobs[id].state = "active"
    /\ wpc[id] # "idle"
    /\ stallsLeft > 0
    /\ stallsLeft' = stallsLeft - 1
    /\ jobs' = [jobs EXCEPT ![id].state = "wait"]
    /\ wpc' = [wpc EXCEPT ![id] = "idle"]
    /\ running' = [running EXCEPT ![id] = @ - 1]
    /\ UNCHANGED <<extVars, events, schedPc, cur, deliveries, sends, hist, published,
                   lastDelay, busVars,
                   sendAtOffset>>

\* ================================================================== Worker
\* await EventService.updateEventStatus(eventId, EventStatus.PROCESSING)
WorkerMarkProcessing(id) ==
    /\ wpc[id] = "start"
    /\ events[id].status # "NONE"
    /\ UpdateEventStatus(id, "PROCESSING", Undefined)
    /\ wpc' = [wpc EXCEPT ![id] = "sending"]
    /\ UNCHANGED <<extVars, schedPc, jobs, cur, stallsLeft, deliveries, sends,
                   lastDelay, subscribed, publisher, clients, ready, home, early,
                   sendAtOffset, running>>

\* const sendSuccess = await simulateSendMessage(...)
WorkerSend(id, sendSuccess) ==
    /\ wpc[id] = "sending"
    /\ sends' = [sends EXCEPT ![id] = Append(@, sendSuccess)]
    /\ wpc' = [wpc EXCEPT ![id] = IF sendSuccess THEN "sendOk" ELSE "sendFailed"]
    /\ UNCHANGED <<extVars, events, schedPc, jobs, cur, stallsLeft, deliveries, hist,
                   published, lastDelay, busVars,
                   sendAtOffset, running>>

\* variant: SENT is written together with a retryCount of 0
WorkerMarkSentResetting(id) ==
    /\ wpc[id] = "sendOk"
    /\ UpdateEventStatus(id, "SENT", 0)
    /\ wpc' = [wpc EXCEPT ![id] = "returned"]
    /\ UNCHANGED <<extVars, schedPc, jobs, cur, stallsLeft, deliveries, sends,
                   lastDelay, subscribed, publisher, clients, ready, home, early,
                   sendAtOffset, running>>

\* await EventService.updateEventStatus(eventId, EventStatus.SENT); return
WorkerMarkSent(id) ==
    /\ wpc[id] = "sendOk"
    /\ UpdateEventStatus(id, "SENT", Undefined)
    /\ wpc' = [wpc EXCEPT ![id] = "returned"]
    /\ UNCHANGED <<extVars, schedPc, jobs, cur, stallsLeft, deliveries, sends,
                   lastDelay, subscribed, publisher, clients, ready, home, early,
                   sendAtOffset, running>>

\* const event = await EventService.getEventDetails(eventId);
\* currentRetryCount = event.retryCount
WorkerReadEvent(id) ==
    /\ wpc[id] = "sendFailed"
    /\ events[id].status # "NONE"
    /\ cur' = [cur EXCEPT ![id] = events[id].retryCount]
    /\ wpc' = [wpc EXCEPT ![id] = "decide"]
    /\ UNCHANGED <<extVars, events, schedPc, jobs, stallsLeft, deliveries, sends, hist,
                   published, lastDelay, busVars,
                   sendAtOffset, running>>

\* currentRetryCount < MAX_RETRIES: RETRIED with nextRetryCount, then throw
WorkerMarkRetried(id) ==
    /\ wpc[id] = "decide"
    /\ CanRetry(cur[id])
    /\ lastDelay' = [lastDelay EXCEPT ![id] = RetryDelay(cur[id])]
    /\ UpdateEventStatus(id, "RETRIED", NextRetryCount(cur[id]))
    /\ wpc' = [wpc EXCEPT ![id] = "thrown"]
    /\ UNCHANGED <<extVars, schedPc, jobs, cur, stallsLeft, deliveries, sends,
                   subscribed, publisher, clients, ready, home, early,
                   sendAtOffset, running>>

\* else branch: FAILED, then throw
WorkerMarkFailed(id) ==
    /\ wpc[id] = "decide"
    /\ ~CanRetry(cur[id])
    /\ UpdateEventStatus(id, "FAILED", Undefined)
    /\ wpc' = [wpc EXCEPT ![id] = "thrown"]
    /\ UNCHANGED <<extVars, schedPc, jobs, cur, stallsLeft, deliveries, sends,
                   lastDelay, subscribed, publisher, clients, ready, home, early,
                   sendAtOffset, running>>

\* the processor returned: job completed and removed (removeOnComplete)
JobCompleted(id) ==
    /\ wpc[id] = "returned"
    /\ jobs' = [jobs EXCEPT ![id] = NoJob]
    /\ wpc' = [wpc EXCEPT ![id] = "idle"]
    /\ running' = [running EXCEPT ![id] = @ - 1]
    /\ UNCHANGED <<extVars, events, schedPc, cur, stallsLeft, deliveries, sends, hist,
                   published, lastDelay, busVars,
                   sendAtOffset>>

\* variant: a failed job is removed from the queue
JobFailedRemoved(id) ==
    /\ wpc[id] = "thrown"
    /\ jobs' = [jobs EXCEPT ![id] = NoJob]
    /\ wpc' = [wpc EXCEPT ![id] = "idle"]
    /\ running' = [running EXCEPT ![id] = @ - 1]
    /\ UNCHANGED <<extVars, events, schedPc, cur, stallsLeft, deliveries, sends, hist,
                   published, lastDelay, busVars,
                   sendAtOffset>>

\* the processor threw: attempts = 1, so the job moves to the failed set and
\* stays there (removeOnFail: false)
JobFailed(id) ==
    /\ wpc[id] = "thrown"
    /\ jobs' = [jobs EXCEPT ![id].state = "failed"]
    /\ wpc' = [wpc EXCEPT ![id] = "idle"]
    /\ running' = [running EXCEPT ![id] = @ - 1]
    /\ UNCHANGED <<extVars, events, schedPc, cur, stallsLeft, deliveries, sends, hist,
                   published, lastDelay, busVars,
                   sendAtOffset>>

\* the steps that follow the createEvent call of scheduleEvent
NextAfterCreate ==
    \/ \E id \in Ids : \E offset \in SendAtOffsets : ScheduleEnqueue(id, offset)
    \/ \E id \in Ids : ScheduleEnqueueFails(id)
    \/ \E id \in Ids : ScheduleBroadcast(id)
    \/ \E id \in Ids : JobRelease(id)
    \/ \E id \in Ids : WorkerPickup(id)
    \/ \E id \in Ids : WorkerMarkProcessing(id)
    \/ \E id \in Ids : \E sendSuccess \in BOOLEAN : WorkerSend(id, sendSuccess)
    \/ \E id \in Ids : WorkerMarkSent(id)
    \/ \E id \in Ids : WorkerReadEvent(id)
    \/ \E id \in Ids : WorkerMarkRetried(id)
    \/ \E id \in Ids : JobCompleted(id)
    \/ \E id \in Ids : JobFailed(id)

NextNoStall ==
    \/ \E id \in Ids : ScheduleCreate(id)
    \/ \E id \in Ids : ScheduleCreateFails(id)
    \/ NextAfterCreate

NextCore ==
    \/ NextNoStall
    \/ \E id \in Ids : Stall(id)
    \/ \E id \in Ids : WorkerMarkFailed(id)

Next == NextCore

Spec == Init /\ [][Next]_vars

\* ========================================================== Missing record
\* the row of an item is removed from the store by something outside the
\* scheduler and the worker
DeleteEvent(id) ==
    /\ events[id] # NoEvent
    /\ events' = [events EXCEPT ![id] = NoEvent]
    /\ UNCHANGED <<extVars, schedPc, jobs, wpc, cur, stallsLeft, deliveries, sends, hist,
                   published, lastDelay, sendAtOffset, running, busVars>>

\* variant: the rejected update is swallowed and the processor returns
WorkerUpdateRejectedSwallowed(id) ==
    /\ wpc[id] \in {"start", "sendOk", "decide"}
    /\ UpdateRejects(events[id])
    /\ wpc' = [wpc EXCEPT ![id] = "returned"]
    /\ UNCHANGED <<extVars, events, schedPc, jobs, cur, stallsLeft, deliveries, sends,
                   hist, published, lastDelay, sendAtOffset, running, busVars>>

\* variant: the intended state is broadcast although the update rejected
WorkerUpdateRejectedPublishing(id) ==
    /\ wpc[id] \in {"start", "sendOk", "decide"}
    /\ UpdateRejects(events[id])
    /\ BroadcastEventUpdate(Worker, id, [CreateEvent EXCEPT !.status = "FAILED"])
    /\ wpc' = [wpc EXCEPT ![id] = "thrown"]
    /\ UNCHANGED <<extVars, events, schedPc, jobs, cur, stallsLeft, deliveries, sends,
                   hist, lastDelay, sendAtOffset, running, subscribed, publisher,
                   clients, ready, home, early>>

\* updateEventStatus: the update rejects, the catch block throws "Failed to
\* update event status." before the broadcast; the processor's catch rethrows
WorkerUpdateRejected(id) ==
    /\ wpc[id] \in {"start", "sendOk", "decide"}
    /\ UpdateRejects(events[id])
    /\ wpc' = [wpc EXCEPT ![id] = "thrown"]
    /\ UNCHANGED <<extVars, events, schedPc, jobs, cur, stallsLeft, deliveries, sends,
                   hist, published, lastDelay, sendAtOffset, running, busVars>>

\* getEventDetails returned null: throw "Event ... not found."
WorkerEventNotFound(id) ==
    /\ wpc[id] = "sendFailed"
    /\ events[id] = NoEvent
    /\ wpc' = [wpc EXCEPT ![id] = "thrown"]
    /\ UNCHANGED <<extVars, events, schedPc, jobs, cur, stallsLeft, deliveries, sends,
                   hist, published, lastDelay, sendAtOffset, running, busVars>>

\* The runs with a deleted row are explored without stalled jobs.
NextFaults ==
    \/ NextNoStall
    \/ \E id \in Ids : DeleteEvent(id)
    \/ \E id \in Ids : WorkerUpdateRejected(id)
    \/ \E id \in Ids : WorkerEventNotFound(id)

InitFaults == \E n \in 1..MaxItems : InitCore(n, 0) /\ InitBus({})

SpecFaults == InitFaults /\ [][NextFaults]_vars

\* One item with every way an attempt can end: stalled jobs and a deleted row.
NextAttempts ==
    \/ NextCore
    \/ \E id \in Ids : DeleteEvent(id)
    \/ \E id \in Ids : WorkerUpdateRejected(id)
    \/ \E id \in Ids : WorkerEventNotFound(id)

InitAttempts == InitCore(1, MaxStalls) /\ InitBus({})

SpecAttempts == InitAttempts /\ [][NextAttempts]_vars

\* ============================================================== Controller
\* EventController.scheduleEvent up to its first await: the body is
\* validated; a fault is answered with 400 and the handler returns, otherwise
\* EventService.scheduleEvent is called
ControllerScheduleEvent(id, body) ==
    /\ schedPc[id] = "idle"
    /\ request[id] = NoRequest
    /\ request' = [request EXCEPT ![id] = body]
    /\ response' = [response EXCEPT ![id] = Validate(body)]
    /\ schedPc' = [schedPc EXCEPT ![id] =
                      IF Validate(body) = 400 THEN "rejected" ELSE "idle"]
    /\ UNCHANGED <<events, jobs, wpc, cur, stallsLeft, deliveries, sends, hist,
                   published, lastDelay, sendAtOffset, running, busVars,
                   shutdown>>

\* scheduleEvent resolved: res.status(201).json(...)
ControllerRespondCreated(id) ==
    /\ schedPc[id] = "done"
    /\ response[id] = 0
    /\ response' = [response EXCEPT ![id] = 201]
    /\ UNCHANGED <<coreVars, busVars, shutdown, request>>

\* scheduleEvent rejected: next(error), answered by the error middleware
ControllerRespondError(id) ==
    /\ schedPc[id] = "failed"
    /\ response[id] = 0
    /\ response' = [response EXCEPT ![id] = 500]
    /\ UNCHANGED <<coreVars, busVars, shutdown, request>>

\* the bodies the request for an item may carry, while it has not arrived
ArrivingBodies(id) ==
    IF schedPc[id] = "idle" /\ request[id] = NoRequest THEN Bodies ELSE {}

\* One request, from its arrival at the controller to the response; the
\* service is entered only by a request the controller let through.
NextApi ==
    \/ \E id \in Ids : \E body \in ArrivingBodies(id) :
          ControllerScheduleEvent(id, body)
    \/ \E id \in Ids : request[id] # NoRequest /\ ScheduleCreate(id)
    \/ \E id \in Ids : request[id] # NoRequest /\ ScheduleCreateFails(id)
    \/ NextAfterCreate
    \/ \E id \in Ids : ControllerRespondCreated(id)
    \/ \E id \in Ids : ControllerRespondError(id)

InitApi == InitCore(1, 0) /\ InitBus({})

SpecApi == InitApi /\ [][NextApi]_vars

\* ========================================================= Worker shutdown
\* process.on("SIGINT" / "SIGTERM"): the handler starts and calls
\* eventWorker.close(), after which the worker takes no further job
WorkerSignal ==
    /\ shutdown.pc = "up"
    /\ shutdown' = [pc |-> "closing",
                    inFlight |-> {id \in Ids : wpc[id] # "idle"}]
    /\ UNCHANGED <<coreVars, busVars, request, response>>

\* variant: close does not wait for the attempts that are running
WorkerCloseForced ==
    /\ shutdown.pc = "closing"
    /\ shutdown' = [shutdown EXCEPT !.pc = "closed"]
    /\ UNCHANGED <<coreVars, busVars, request, response>>

\* await eventWorker.close() resolves once no attempt is running
WorkerCloseResolved ==
    /\ shutdown.pc = "closing"
    /\ \A id \in Ids : wpc[id] = "idle"
    /\ shutdown' = [shutdown EXCEPT !.pc = "closed"]
    /\ UNCHANGED <<coreVars, busVars, request, response>>

\* await disconnectDb()
WorkerDisconnectDb ==
    /\ shutdown.pc = "closed"
    /\ shutdown' = [shutdown EXCEPT !.pc = "dbDisconnected"]
    /\ UNCHANGED <<coreVars, busVars, request, response>>

\* closeWebSocketRedis(); process.exit(0)
WorkerExit ==
    /\ shutdown.pc = "dbDisconnected"
    /\ shutdown' = [shutdown EXCEPT !.pc = "exited"]
    /\ UNCHANGED <<coreVars, busVars, request, response>>

\* A graceful shutdown is explored without stalled jobs.
NextShutdown ==
    \/ NextNoStall
    \/ WorkerSignal
    \/ WorkerCloseResolved
    \/ WorkerDisconnectDb
    \/ WorkerExit

InitShutdown == \E n \in 1..MaxItems : InitCore(n, 0) /\ InitBus({})

SpecShutdown == InitShutdown /\ [][NextShutdown]_vars

\* ================================================================ Liveness
\* The event loops of the server and of the worker run every continuation
\* that is ready, and the queue releases and hands out every job that is
\* due; a stalled executor is a fault and is not owed to any run.
Fairness ==
    \A id \in Ids :
        /\ WF_vars(\E offset \in SendAtOffsets : ScheduleEnqueue(id, offset))
        /\ WF_vars(ScheduleBroadcast(id))
        /\ WF_vars(JobRelease(id))
        /\ WF_vars(WorkerPickup(id))
        /\ WF_vars(WorkerMarkProcessing(id))
        /\ WF_vars(\E sendSuccess \in BOOLEAN : WorkerSend(id, sendSuccess))
        /\ WF_vars(WorkerMarkSent(id))
        /\ WF_vars(WorkerReadEvent(id))
        /\ WF_vars(WorkerMarkRetried(id))
        /\ WF_vars(WorkerMarkFailed(id))
        /\ WF_vars(JobCompleted(id))
        /\ WF_vars(JobFailed(id))

SpecLive == Init /\ [][Next]_vars /\ Fairness

\* ================================================================= Fan-out
\* the frame the server sends to a socket it has just accepted
Greeting ==
    [type |-> "connected", message |-> "Connected to event scheduler WebSocket"]

\* variant: a new connection is sent the updates published so far
ConnectWithReplay(o, s) ==
    /\ ready[o] = "NONE"
    /\ home' = [home EXCEPT ![o] = s]
    /\ clients' = [clients EXCEPT ![s] = @ \cup {o}]
    /\ ready' = [ready EXCEPT ![o] = "OPEN"]
    /\ received' = [received EXCEPT ![o] =
                       <<Greeting>> \o [i \in 1..Len(published[1]) |->
                                          Frame(published[1][i])]]
    /\ early' = [early EXCEPT ![o] = \A i \in Ids : schedPc[i] \in {"idle", "off"}]
    /\ UNCHANGED <<extVars, coreVars, subscribed, publisher, inbox>>

\* wss.on("connection") on server s: clients.add(ws), the socket is OPEN and
\* is sent the greeting
Connect(o, s) ==
    /\ ready[o] = "NONE"
    /\ home' = [home EXCEPT ![o] = s]
    /\ clients' = [clients EXCEPT ![s] = @ \cup {o}]
    /\ ready' = [ready EXCEPT ![o] = "OPEN"]
    /\ received' = [received EXCEPT ![o] = Append(@, Greeting)]
    /\ early' = [early EXCEPT ![o] = \A i \in Ids : schedPc[i] \in {"idle", "off"}]
    /\ UNCHANGED <<extVars, coreVars, subscribed, publisher, inbox>>

\* the connection starts closing: readyState leaves OPEN before the close
\* event is emitted
BeginClose(o) ==
    /\ ready[o] = "OPEN"
    /\ ready' = [ready EXCEPT ![o] = "CLOSING"]
    /\ UNCHANGED <<extVars, coreVars, subscribed, publisher, inbox, clients, home, received, early>>

\* variant: the close handler leaves the connection in the registry
CloseEventKeepsClient(o) ==
    /\ ready[o] = "CLOSING"
    /\ ready' = [ready EXCEPT ![o] = "CLOSED"]
    /\ UNCHANGED <<extVars, coreVars, subscribed, publisher, inbox, clients, home, received, early>>

\* ws.on("close"): clients.delete(ws)
CloseEvent(o) ==
    /\ ready[o] = "CLOSING"
    /\ ready' = [ready EXCEPT ![o] = "CLOSED"]
    /\ clients' = [clients EXCEPT ![home[o]] = @ \ {o}]
    /\ UNCHANGED <<extVars, coreVars, subscribed, publisher, inbox, home, received, early>>

\* variant: the newest pending message is relayed first
RelayNewestFirst(s) ==
    /\ s \in subscribed
    /\ inbox[s] # <<>>
    /\ BroadcastToClients(s, inbox[s][Len(inbox[s])])
    /\ inbox' = [inbox EXCEPT ![s] = SubSeq(@, 1, Len(@) - 1)]
    /\ UNCHANGED <<extVars, coreVars, subscribed, publisher, clients, ready, home, early>>

\* redisSubscriber.on('message'): parse the message and relay it
Relay(s) ==
    /\ s \in subscribed
    /\ inbox[s] # <<>>
    /\ BroadcastToClients(s, Head(inbox[s]))
    /\ inbox' = [inbox EXCEPT ![s] = Tail(@)]
    /\ UNCHANGED <<extVars, coreVars, subscribed, publisher, clients, ready, home, early>>

\* In a run without a stalled job an item is attempted once, its retryCount
\* stays below MAX_RETRIES and the FAILED branch is never taken.
NextBus ==
    \/ NextNoStall
    \/ \E o \in Observers : \E s \in Servers : Connect(o, s)
    \/ \E o \in Observers : BeginClose(o)
    \/ \E o \in Observers : CloseEvent(o)
    \/ \E s \in Servers : Relay(s)

InitFanout == InitCore(1, 0) /\ InitBus(Servers)

SpecBus == InitFanout /\ [][NextBus]_vars

\* Processes that have and have not called initializeWebSocketRedis: the call
\* creates the publisher and the subscriber of a process together.
InitRoutes ==
    /\ InitCore(1, 0)
    /\ \E pubs \in SUBSET Procs : InitBusWith(pubs, pubs \cap Servers)

SpecRoutes == InitRoutes /\ [][NextBus]_vars

\* ================================================================ Frontend
\* websocket.onmessage of the page: a frame of type "EVENT_UPDATE" that has a
\* payload replaces the entry with the payload's id, or is appended when no
\* entry has that id; any other frame leaves the list as it is
OnMessage(prevEvents, data) ==
    IF data.type = "EVENT_UPDATE" /\ "payload" \in DOMAIN data
    THEN LET updatedEvent == data.payload
             found == {i \in 1..Len(prevEvents) :
                          prevEvents[i].id = updatedEvent.id}
         IN IF found # {}
            THEN [prevEvents EXCEPT
                     ![CHOOSE i \in found : \A j \in found : i <= j] =
                         updatedEvent]
            ELSE Append(prevEvents, updatedEvent)
    ELSE prevEvents

RECURSIVE ApplyFrames(_, _)
ApplyFrames(prevEvents, frames) ==
    IF frames = <<>> THEN prevEvents
    ELSE ApplyFrames(OnMessage(prevEvents, Head(frames)), Tail(frames))

\* the event list of the page of observer o, which loaded before any item
\* was scheduled (fetchEvents returned no event)
FrontendEvents(o) == ApplyFrames(<<>>, received[o])

\* ================================================================== Claims
\* helpers of the statements below
\* the created row with the given status and retryCount
Item(status, retryCount) ==
    [CreateEvent EXCEPT !.status = status, !.retryCount = retryCount]

IsPrefix(s, t) == Len(s) <= Len(t) /\ \A i \in 1..Len(s) : s[i] = t[i]

Count(seq, x) == Cardinality({i \in 1..Len(seq) : seq[i] = x})

Last(seq) == seq[Len(seq)]

\* every simulateSendMessage of the item so far returned true / false
AllSendsSucceeded(id) == \A i \in 1..Len(sends[id]) : sends[id][i]
AllSendsFailed(id) == \A i \in 1..Len(sends[id]) : ~sends[id][i]

\* the job of id was handed out, no executor holds it, the queue will not
\* hand it out again
AttemptOver(id) ==
    /\ deliveries[id] > 0
    /\ wpc[id] = "idle"
    /\ jobs[id].state \in {"absent", "failed"}

\* C1: retryCount never exceeds MAX_RETRIES (3) and no step lowers it.
RetryCountCeiling ==
    /\ [](\A id \in Ids : events[id].retryCount <= MAX_RETRIES)
    /\ [][\A id \in Ids : events'[id].retryCount >= events[id].retryCount]_vars

\* C1 witness: an item whose retryCount reached the ceiling by a third retry
RetryCountAtCeiling ==
    \E id \in Ids : events[id].status = "RETRIED"
                    /\ events[id].retryCount = MAX_RETRIES

\* C2: after a failed send on an item with retryCount below MAX_RETRIES the
\* worker has re-armed the item: once the attempt that wrote RETRIED is over,
\* a job for the same id is pending (delayed, waiting or active).
ReArmAfterFailure ==
    \A id \in Ids :
        (events[id].status = "RETRIED" /\ wpc[id] = "idle")
            => jobs[id].state \in {"delayed", "wait", "active"}

\* C3: if every send fails, the item goes through RETRIED(1), RETRIED(2),
\* RETRIED(3) and ends in FAILED: when nothing is left to run for an item all
\* of whose sends failed, its status is FAILED with retryCount 3.
AllFailuresEndFailed ==
    \A id \in Ids :
        (sends[id] # <<>> /\ AllSendsFailed(id) /\ AttemptOver(id))
            => /\ events[id] = Item("FAILED", MAX_RETRIES)
               /\ \A r \in 1..MAX_RETRIES :
                     Count(hist[id], Item("RETRIED", r)) = 1

\* the status sequence of scenario A
SuccessSequence ==
    << Item("SCHEDULED", 0),
       Item("PROCESSING", 0),
       Item("SENT", 0) >>

SentIsTerminal ==
    [][\A id \in Ids : events[id].status = "SENT" => events'[id] = events[id]]_vars

\* C6: once an item is FAILED, no step changes its status or retryCount, a
\* re-delivered attempt for the same job included.
FailedIsTerminal ==
    [][\A id \in Ids : events[id].status = "FAILED" => events'[id] = events[id]]_vars

\* C7: an item whose status is FAILED has retryCount = MAX_RETRIES.
FailedHasMaxRetries ==
    \A id \in Ids :
        events[id].status = "FAILED" => events[id].retryCount = MAX_RETRIES

\* C7 witness: an attempt found no retry left and wrote FAILED
SomeItemFailed ==
    \E id \in Ids : events[id].status = "FAILED" /\ wpc[id] = "thrown"

\* C8: the retry job enqueued after the failure that raises retryCount from r
\* to r+1 is delayed by RETRY_DELAY_MS * 2^r (1000, 2000, 4000 ms): once the
\* attempt that wrote RETRIED(r+1) is over, the job of the item is a delayed
\* job with that delay.
RetryJobDelay ==
    \A id \in Ids :
        (events[id].status = "RETRIED" /\ wpc[id] = "idle")
            => /\ jobs[id].state = "delayed"
               /\ jobs[id].delay
                     = RETRY_DELAY_MS * Pow2(events[id].retryCount - 1)

\* C9: every Status Store mutation (the create of scheduleEvent, every update
\* of updateEventStatus) is followed by exactly one published message that
\* carries the state after that mutation: once the scheduleEvent call of an
\* item has ended, the published payloads of the item are, one for one, the
\* states its record went through.
EveryMutationBroadcast ==
    \A id \in Ids :
        schedPc[id] \in {"done", "failed"}
            => /\ Len(published[id]) = Len(hist[id])
               /\ \A i \in 1..Len(hist[id]) :
                     Count(published[id], Payload(id, hist[id][i]))
                         = Count(hist[id], hist[id][i])

\* the frames an observer received for one item
FramesFor(o, id) ==
    SelectSeq(received[o], LAMBDA f : f.type = "eventUpdate" /\ f.data.id = id)

\* the item was scheduled and processed, nothing is running or pending for it
\* and the bus has delivered every message about it to server s
Settled(id, s) ==
    /\ schedPc[id] = "done"
    /\ AttemptOver(id)
    /\ \A i \in 1..Len(inbox[s]) : inbox[s][i].id # id

\* C10: an observer that connected before the item was scheduled and is
\* still open has, once the item is no longer being mutated, received as its
\* last message for the item the status and retryCount of the Status Store
\* record, on whichever server it is attached.
ObserversInSync ==
    \A o \in Observers : \A id \in Ids :
        (/\ early[o] /\ ready[o] = "OPEN"
         /\ events[id].status # "NONE"
         /\ Settled(id, home[o]))
            => /\ FramesFor(o, id) # <<>>
               /\ Last(FramesFor(o, id)).data.status = events[id].status
               /\ Last(FramesFor(o, id)).data.retryCount = events[id].retryCount

\* C11: scheduleEvent enqueues the job with delay = max(0, sendAt - now): the
\* delay of the job is the offset when that is positive and 0 otherwise, it
\* is never negative, and a job with zero delay is eligible at once.
DelayClamped ==
    \A id \in Ids :
        (schedPc[id] \in {"enqueued", "done"} /\ jobs[id].state # "absent")
            => /\ jobs[id].delay >= 0
               /\ sendAtOffset[id] > 0 => jobs[id].delay = sendAtOffset[id]
               /\ sendAtOffset[id] <= 0 => jobs[id].delay = 0
               /\ jobs[id].delay = 0 => jobs[id].state # "delayed"

\* C11 witness: an item with sendAt in the past was accepted and its job
\* waits with zero delay
PastSendAtAccepted ==
    \E id \in Ids : /\ sendAtOffset[id] < 0
                    /\ schedPc[id] = "done"
                    /\ jobs[id] = [state |-> "wait", delay |-> 0]

\* C15: at no time do two executors run the attempt procedure for the same
\* item id; every mutation of an item made by a worker is made by the one
\* executor that holds its job.
OneExecutorPerItem ==
    /\ [](\A id \in Ids : /\ running[id] <= 1
                          /\ running[id] = 1 <=> jobs[id].state = "active")
    /\ [][\A id \in Ids :
            (events'[id] # events[id] /\ events[id].status # "NONE")
                => running[id] = 1 /\ running'[id] = 1]_vars

\* C15 witness: a job re-released after a stall is run by a single executor
RedeliveredSingleExecutor ==
    \E id \in Ids : deliveries[id] >= 2 /\ running[id] = 1 /\ wpc[id] = "sending"

\* C16: each item that is SCHEDULED, PROCESSING or RETRIED has exactly one
\* pending Delay Queue entry (delayed, waiting or active) under its id and
\* each item that is SENT or FAILED has none; stated for the moments at which
\* neither the scheduleEvent call nor an attempt for the item is in progress.
OneQueueEntryWhileLive ==
    \A id \in Ids :
        (schedPc[id] \in {"done", "failed"} /\ wpc[id] = "idle")
            => /\ events[id].status \in {"SCHEDULED", "PROCESSING", "RETRIED"}
                    => jobs[id].state \in {"delayed", "wait", "active"}
               /\ events[id].status \in {"SENT", "FAILED"}
                    => jobs[id].state \notin {"delayed", "wait", "active"}

\* C12: in scheduleEvent the create is over before the job is added and the
\* job is added before the broadcast is published and before the call returns;
\* so a job, a worker attempt, a published update or a frame at an observer
\* exists only for an item that is in the store.
CreateThenEnqueueThenBroadcast ==
    \A id \in Ids :
        /\ (jobs[id].state # "absent" \/ deliveries[id] > 0 \/ wpc[id] # "idle")
               => /\ events[id].status # "NONE"
                  /\ schedPc[id] \in {"enqueued", "done"}
        /\ published[id] # <<>> => events[id].status # "NONE"
        /\ Count(published[id], Payload(id, CreateEvent)) > 0
               => /\ schedPc[id] = "done"
                  /\ jobs[id].state # "absent" \/ deliveries[id] > 0
        /\ schedPc[id] = "done"
               => Count(published[id], Payload(id, CreateEvent)) = 1
        /\ \A o \in Observers :
               FramesFor(o, id) # <<>> => events[id].status # "NONE"

\* C12 witness: the call returned, an observer holds the SCHEDULED frame and
\* the worker has been handed the job
ScheduledSeenAndDelivered ==
    \E id \in Ids : \E o \in Observers :
        /\ schedPc[id] = "done"
        /\ wpc[id] = "start"
        /\ FramesFor(o, id) = <<Frame(Payload(id, CreateEvent))>>

\* C13: when the create fails, the failing step changes neither the store, the
\* queue, the bus nor any observer, and afterwards the item has no row, no job
\* and no published update.
CreateFailureLeavesNothing ==
    /\ [](\A id \in Ids :
             (schedPc[id] = "failed" /\ hist[id] = <<>>)
                 => /\ events[id] = NoEvent
                    /\ jobs[id] = NoJob
                    /\ deliveries[id] = 0
                    /\ published[id] = <<>>
                    /\ \A o \in Observers : FramesFor(o, id) = <<>>)
    /\ [][\A id \in Ids :
             (schedPc[id] = "idle" /\ schedPc'[id] = "failed")
                 => UNCHANGED <<events, jobs, hist, published, inbox, received,
                                clients>>]_vars

\* C13 witness: a create failed while an observer was connected and open
CreateFailedWhileObserved ==
    \E id \in Ids : \E o \in Observers :
        /\ schedPc[id] = "failed"
        /\ hist[id] = <<>>
        /\ ready[o] = "OPEN"
        /\ received[o] = <<Greeting>>

\* the frames that carry the updates published for an item, in order
PublishedFrames(id) ==
    [i \in 1..Len(published[id]) |-> Frame(published[id][i])]

\* the messages for an item a server has received and not yet relayed
PendingFor(s, id) == SelectSeq(inbox[s], LAMBDA m : m.id = id)

RECURSIVE IsSubseq(_, _)
IsSubseq(s, t) ==
    IF s = <<>> THEN TRUE
    ELSE IF t = <<>> THEN FALSE
    ELSE IF Head(s) = Head(t) THEN IsSubseq(Tail(s), Tail(t))
    ELSE IsSubseq(s, Tail(t))

\* C17: two observers that connected to two different server processes before
\* the item was scheduled and are still open receive the same sequence of
\* updates for it: one sequence is always a prefix of the other, and once both
\* servers have relayed what they received both hold every published update.
SameSequenceAcrossServers ==
    \A id \in Ids : \A o, p \in Observers :
        (/\ o # p /\ home[o] # home[p]
         /\ ready[o] = "OPEN" /\ ready[p] = "OPEN"
         /\ early[o] /\ early[p])
            => /\ \/ IsPrefix(FramesFor(o, id), FramesFor(p, id))
                  \/ IsPrefix(FramesFor(p, id), FramesFor(o, id))
               /\ (PendingFor(home[o], id) = <<>> /\ PendingFor(home[p], id) = <<>>)
                     => /\ FramesFor(o, id) = PublishedFrames(id)
                        /\ FramesFor(p, id) = PublishedFrames(id)

\* C17 witness: observers on two servers both hold SCHEDULED, PROCESSING, SENT
TwoServersSameFrames ==
    \E id \in Ids : \E o, p \in Observers :
        /\ home[o] # home[p]
        /\ ready[o] = "OPEN" /\ ready[p] = "OPEN"
        /\ early[o] /\ early[p]
        /\ Len(FramesFor(o, id)) = 3
        /\ FramesFor(o, id) = FramesFor(p, id)
        /\ Last(FramesFor(o, id)).data.status = "SENT"

\* C18: the updates of one item reach each observer in the order in which they
\* were published: what an observer holds is a subsequence of the publication
\* sequence, which keeps the order of every publishing process.
RelayedInPublicationOrder ==
    \A id \in Ids : \A o \in Observers :
        IsSubseq(FramesFor(o, id), PublishedFrames(id))

\* C18 witness: an observer holds SCHEDULED, PROCESSING, RETRIED in that order
ThreeFramesInOrder ==
    \E id \in Ids : \E o \in Observers :
        /\ Len(FramesFor(o, id)) = 3
        /\ FramesFor(o, id) = PublishedFrames(id)
        /\ Last(FramesFor(o, id)).data.status = "RETRIED"

\* C19: a step in which server s relays a message removes the message from
\* what s has pending, appends its frame to every observer registered at s
\* whose readyState is OPEN, and leaves every other observer as it was.
RelayReachesEveryOpenClient ==
    [][\A s \in Servers :
          Len(inbox'[s]) < Len(inbox[s])
              => /\ inbox'[s] = Tail(inbox[s])
                 /\ \A o \in Observers :
                       received'[o] =
                           IF o \in clients[s] /\ ready[o] = "OPEN"
                           THEN Append(received[o], Frame(Head(inbox[s])))
                           ELSE received[o]]_vars

\* C19 witness: two observers registered at one server, one open and one
\* closing; the relay went on to the open one after the other was skipped
ClosingClientSkipped ==
    \E id \in Ids : \E o, p \in Observers : \E s \in Servers :
        /\ o # p
        /\ {o, p} \subseteq clients[s]
        /\ ready[o] = "OPEN" /\ ready[p] = "CLOSING"
        /\ early[o] /\ early[p]
        /\ Len(FramesFor(p, id)) = 1
        /\ Len(FramesFor(o, id)) = 3

\* C20: an observer's frames change only when it connects (the greeting) or
\* when its server relays a message while the observer is registered and OPEN,
\* and then by one copy of that message; so an observer never holds more
\* updates of an item than were published minus those its server still has
\* to relay, and one that never connected holds nothing.
AtMostOnceNoReplay ==
    /\ [](\A o \in Observers : \A id \in Ids :
             /\ ready[o] = "NONE" => received[o] = <<>>
             /\ ready[o] # "NONE"
                   => Len(FramesFor(o, id)) + Len(PendingFor(home[o], id))
                          <= Len(published[id]))
    /\ [][\A o \in Observers :
             received'[o] # received[o]
                 => \/ /\ ready[o] = "NONE"
                       /\ received'[o] = Append(received[o], Greeting)
                    \/ /\ ready[o] = "OPEN"
                       /\ o \in clients[home[o]]
                       /\ inbox[home[o]] # <<>>
                       /\ inbox'[home[o]] = Tail(inbox[home[o]])
                       /\ received'[o] =
                              Append(received[o], Frame(Head(inbox[home[o]])))]_vars

\* C20 witness: an observer that joined after two updates were relayed holds
\* only the third
LateJoinerSeesOnlyLater ==
    \E id \in Ids : \E o \in Observers :
        /\ ~early[o]
        /\ ready[o] = "OPEN"
        /\ Len(published[id]) = 3
        /\ PendingFor(home[o], id) = <<>>
        /\ FramesFor(o, id) = <<Frame(published[id][3])>>

\* the row of the item was created and is no longer in the store
Deleted(id) == events[id] = NoEvent /\ hist[id] # <<>>

\* C14: when the row of an item is deleted after its job was added and before
\* the worker's first update, the attempt ends with the job in the failed set
\* without a send and without a worker update; a deleted row is never written
\* again, and the failed job is never replaced by a new one.
MissingRecordFailsJob ==
    /\ [](\A id \in Ids :
             (Deleted(id) /\ hist[id] = <<CreateEvent>> /\ deliveries[id] > 0
                 /\ wpc[id] = "idle")
                 => /\ jobs[id].state = "failed"
                    /\ deliveries[id] = 1
                    /\ sends[id] = <<>>
                    /\ \A i \in 1..Len(published[id]) :
                          published[id][i] = Payload(id, CreateEvent))
    /\ [][\A id \in Ids :
             /\ Deleted(id) => (events'[id] = events[id] /\ hist'[id] = hist[id])
             /\ jobs[id].state = "failed" => jobs'[id] = jobs[id]]_vars

\* C14 witness: the row was deleted while the job was waiting, and the attempt
\* has failed the job
DeletedBeforeReleaseJobFailed ==
    \E id \in Ids :
        /\ Deleted(id)
        /\ hist[id] = <<CreateEvent>>
        /\ sendAtOffset[id] > 0
        /\ deliveries[id] = 1
        /\ wpc[id] = "idle"
        /\ jobs[id].state = "failed"

\* C21: handing a job to an executor, a first time or again, leaves the
\* item's record as it is; retryCount changes only in the step that records
\* the decision on a failed send, and then by exactly one, so it never exceeds
\* the number of failed sends.
RetryCountOnlyByDecision ==
    /\ [](\A id \in Ids : events[id].retryCount <= Count(sends[id], FALSE))
    /\ [][\A id \in Ids :
             /\ (deliveries'[id] # deliveries[id] \/ running'[id] < running[id])
                   => events'[id] = events[id]
             /\ events'[id].retryCount # events[id].retryCount
                   => /\ wpc[id] = "decide"
                      /\ Last(sends[id]) = FALSE
                      /\ events'[id].retryCount = events[id].retryCount + 1]_vars

\* C21 witness: the job was handed out three times, one send failed and was
\* decided, and the item's retryCount is 1
RedeliveredTwiceCountedOnce ==
    \E id \in Ids :
        /\ deliveries[id] = 3
        /\ wpc[id] = "start"
        /\ Count(sends[id], FALSE) = 1
        /\ events[id].retryCount = 1

\* C22: an attempt that runs the job again (the job was handed out before)
\* writes PROCESSING only over a record from which the state machine allows
\* processing: SCHEDULED, RETRIED, or PROCESSING left by the crashed attempt.
RerunFromStoredState ==
    [][\A id \in Ids :
          (deliveries[id] >= 2 /\ wpc[id] = "start" /\ hist'[id] # hist[id])
              => events[id].status \in {"SCHEDULED", "RETRIED", "PROCESSING"}]_vars

\* the edges of the state machine
StatusEdges ==
    {<<"SCHEDULED", "PROCESSING">>, <<"PROCESSING", "SENT">>,
     <<"PROCESSING", "RETRIED">>, <<"PROCESSING", "FAILED">>,
     <<"RETRIED", "PROCESSING">>}

\* C26: the record an attempt writes after the send follows the transition
\* table: success with r < 3 gives SENT with r, failure with r < 3 gives
\* RETRIED with r + 1, failure with r = 3 gives FAILED with r.
DecisionTable ==
    [][\A id \in Ids :
          (hist'[id] # hist[id] /\ wpc[id] \in {"sendOk", "decide"})
              => LET r == events[id].retryCount
                     n == events'[id]
                     ok == Last(sends[id])
                 IN /\ r \in 0..3
                    /\ (ok /\ r < 3) => (n.status = "SENT" /\ n.retryCount = r)
                    /\ (~ok /\ r < 3)
                          => (n.status = "RETRIED" /\ n.retryCount = r + 1)
                    /\ (~ok /\ r = 3)
                          => (n.status = "FAILED" /\ n.retryCount = r)]_vars

\* C26 witness: after two failed sends the third send succeeded and SENT was
\* written with retryCount 2
SentAfterTwoRetries ==
    \E id \in Ids :
        /\ sends[id] = <<FALSE, FALSE, TRUE>>
        /\ events[id].status = "SENT"
        /\ events[id].retryCount = 2

\* C27: a created item starts as SCHEDULED with retryCount 0, and every later
\* change of its status is an edge of the state machine.
StatusFollowsEdges ==
    [][\A id \in Ids :
          events'[id].status # events[id].status
              => IF events[id].status = "NONE"
                 THEN events'[id].status = "SCHEDULED"
                      /\ events'[id].retryCount = 0
                 ELSE <<events[id].status, events'[id].status>> \in StatusEdges]_vars

\* C28: every write of an attempt to the item's record comes after the
\* attempt has read the record from the store (the executor is past
\* getEventDetails, at the retry decision).
ReadBeforeMutation ==
    [][\A id \in Ids :
          (hist'[id] # hist[id] /\ wpc[id] # "idle") => wpc[id] = "decide"]_vars

\* C30: with the scheduler, the queue and the worker running fairly, an item
\* whose scheduleEvent call returned eventually is SENT or FAILED.
EventuallyTerminal ==
    \A id \in Ids :
        (schedPc[id] = "done") ~> (events[id].status \in {"SENT", "FAILED"})

\* C29: once created, the row of an item keeps its message, recipientEmail,
\* sendAt and createdAt (its id is its key); the row changes only in a step of
\* a worker attempt, and retryCount changes only in an update that passes one
\* (the RETRIED write).
PayloadImmutable ==
    [][\A id \in Ids :
          events[id] # NoEvent
              => /\ events'[id].message = events[id].message
                 /\ events'[id].recipientEmail = events[id].recipientEmail
                 /\ events'[id].sendAt = events[id].sendAt
                 /\ events'[id].createdAt = events[id].createdAt
                 /\ events'[id] # events[id]
                       => (wpc[id] \notin {"idle", "returned", "thrown"}
                           /\ running[id] = 1)
                 /\ events'[id].retryCount # events[id].retryCount
                       => events'[id].status = "RETRIED"]_vars

\* C29 witness: after five updates by worker attempts the row still has the
\* columns it was created with
UpdatedRowKeepsPayload ==
    \E id \in Ids :
        /\ Len(hist[id]) = 6
        /\ events[id].status = "RETRIED"
        /\ events[id].retryCount = 2
        /\ events[id] = Item("RETRIED", 2)

\* C25: the page of an observer that was connected before the item was
\* scheduled shows, for every item it received an update frame of, an entry
\* equal to the latest update received.
FrontendFollowsUpdates ==
    \A o \in Observers : \A id \in Ids :
        (early[o] /\ FramesFor(o, id) # <<>>)
            => \E i \in 1..Len(FrontendEvents(o)) :
                  FrontendEvents(o)[i] = Last(FramesFor(o, id)).data

\* C23: once eventWorker.close() has resolved in a graceful shutdown (and so
\* before the store and bus connections are released) no attempt is running,
\* no job is active, no item is left PROCESSING, the record of every attempted
\* item has been published as it stands, and every job still queued belongs
\* to an item that is SCHEDULED.
ShutdownDrains ==
    shutdown.pc \in {"closed", "dbDisconnected", "exited"}
        => \A id \in Ids :
              /\ wpc[id] = "idle"
              /\ running[id] = 0
              /\ jobs[id].state # "active"
              /\ events[id].status # "PROCESSING"
              /\ deliveries[id] > 0
                    => /\ events[id].status \in {"SENT", "RETRIED", "FAILED"}
                       /\ Count(published[id], Payload(id, events[id])) = 1
              /\ jobs[id].state \in {"delayed", "wait"}
                    => events[id].status = "SCHEDULED"

\* C23 witness: the signal arrived while an attempt was between PROCESSING
\* and its final update; the process exited after that attempt wrote RETRIED
ExitedAfterDrainingAttempt ==
    \E id \in Ids :
        /\ shutdown.pc = "exited"
        /\ id \in shutdown.inFlight
        /\ events[id].status = "RETRIED"
        /\ jobs[id].state = "failed"

\* the validation faults of a request body
HasValidationFault(body) ==
    \/ body.message.t # "string"
    \/ body.recipientEmail.t # "string"
    \/ ~EmailPattern(body.recipientEmail.v)
    \/ body.send_at.t # "string"
    \/ InvalidDate(body.send_at.v)

\* C24: a request whose body has a validation fault is answered with 400 and
\* never reaches the scheduler: no row, no job and no published update exist
\* for it.
ValidationFaultRejected ==
    \A id \in Ids :
        (request[id] # NoRequest /\ HasValidationFault(request[id]))
            => /\ response[id] = 400
               /\ schedPc[id] = "rejected"
               /\ events[id] = NoEvent
               /\ hist[id] = <<>>
               /\ jobs[id] = NoJob
               /\ published[id] = <<>>

\* C24 witness: a request whose only fault is a send_at that does not parse
\* was answered with 400
UnparseableDateRejected ==
    \E id \in Ids :
        /\ request[id] = [message |-> JsString(<<"h", "i">>),
                          recipientEmail |-> JsString(<<"a", "@", "a", ".", "a">>),
                          send_at |-> JsString(<<"tomorrow">>)]
        /\ response[id] = 400

\* C31: the first update published for an item is the one that announces
\* SCHEDULED; no update with PROCESSING or a later status is published
\* before it.
ScheduledPublishedFirst ==
    \A id \in Ids :
        published[id] # <<>> => published[id][1].status = "SCHEDULED"

\* C32: when the enqueue fails after the create, the failing step changes
\* neither the store nor the queue nor what is published, and afterwards the
\* item is in the store as created (SCHEDULED, retryCount 0), has no job, was
\* never handed to a worker and has no published update.
EnqueueFailureKeepsRow ==
    /\ [](\A id \in Ids :
             (schedPc[id] = "failed" /\ hist[id] # <<>>)
                 => /\ events[id] = CreateEvent
                    /\ hist[id] = <<CreateEvent>>
                    /\ jobs[id] = NoJob
                    /\ deliveries[id] = 0
                    /\ published[id] = <<>>)
    /\ [][\A id \in Ids :
             (schedPc[id] = "created" /\ schedPc'[id] = "failed")
                 => UNCHANGED <<events, jobs, hist, published, inbox, received>>]_vars

\* C32 witness: the enqueue of the second item failed while the first item
\* was scheduled and attempted
EnqueueFailedRowKept ==
    /\ schedPc[1] = "done"
    /\ deliveries[1] = 1
    /\ schedPc[2] = "failed"
    /\ events[2] = CreateEvent
    /\ jobs[2] = NoJob

\* C36: a SCHEDULED item has retryCount 0 and a RETRIED item has a retryCount
\* from 1 to 3.
StatusBoundsRetryCount ==
    \A id \in Ids :
        /\ events[id].status = "SCHEDULED" => events[id].retryCount = 0
        /\ events[id].status = "RETRIED" => events[id].retryCount \in 1..3

\* C36 witness: every RETRIED count from 1 to 3 was written for one item
RetriedOneTwoThree ==
    \E id \in Ids :
        /\ \A r \in 1..3 : Count(hist[id], Item("RETRIED", r)) = 1
        /\ events[id] = Item("RETRIED", 3)
        /\ jobs[id].state = "failed"

\* C37: the write that follows a successful send sets the status to SENT,
\* leaves retryCount as it is, whatever it is (0..3), and is not preceded by
\* a read of the count in that attempt.
SentKeepsRetryCount ==
    [][\A id \in Ids :
          (wpc[id] = "sendOk" /\ hist'[id] # hist[id])
              => /\ events'[id].status = "SENT"
                 /\ events'[id].retryCount = events[id].retryCount
                 /\ events[id].retryCount \in 0..3
                 /\ cur'[id] = cur[id]]_vars

\* C37 witness: the send succeeded for an item with retryCount 3 and SENT was
\* written with retryCount 3
SentAtCeiling ==
    \E id \in Ids : events[id] = Item("SENT", 3) /\ wpc[id] = "returned"

\* C38: without a redelivery the send is executed at most MAX_RETRIES + 1
\* times for an item, and an attempt never executes the send for an item it
\* found SENT or FAILED (the status the record had before the attempt marked
\* it PROCESSING).
SendOnlyForLiveItems ==
    /\ [](\A id \in Ids :
             deliveries[id] <= 1 => Len(sends[id]) <= MAX_RETRIES + 1)
    /\ [][\A id \in Ids :
             sends'[id] # sends[id]
                 => /\ Len(hist[id]) >= 2
                    /\ hist[id][Len(hist[id])].status = "PROCESSING"
                    /\ hist[id][Len(hist[id]) - 1].status
                          \notin {"SENT", "FAILED"}]_vars

\* C33: a job is completed and removed only by an attempt that wrote SENT and
\* returned; an attempt throws exactly when it wrote RETRIED or FAILED or when
\* the record was missing, a thrown attempt leaves its job in the failed set,
\* and a job in the failed set stays there and is never handed out again.
JobOutcomeFollowsWrite ==
    /\ [](\A id \in Ids :
             /\ wpc[id] = "returned" => Last(hist[id]).status = "SENT"
             /\ jobs[id].state = "failed" => (wpc[id] = "idle" /\ running[id] = 0))
    /\ [][\A id \in Ids :
             /\ (jobs[id].state = "active" /\ jobs'[id].state = "absent")
                   => (wpc[id] = "returned" /\ Last(hist[id]).status = "SENT")
             /\ (wpc[id] # "thrown" /\ wpc'[id] = "thrown")
                   => \/ /\ hist'[id] # hist[id]
                         /\ Last(hist'[id]).status \in {"RETRIED", "FAILED"}
                      \/ /\ hist'[id] = hist[id]
                         /\ events[id] = NoEvent
             /\ (wpc[id] = "thrown" /\ wpc'[id] = "idle" /\ jobs'[id].state # "wait")
                   => jobs'[id].state = "failed"
             /\ jobs[id].state = "failed"
                   => (jobs'[id] = jobs[id] /\ deliveries'[id] = deliveries[id])]_vars

\* C33 witness: the second delivery of a job found the record missing, threw,
\* and the job is in the failed set
RedeliveredJobFailedOnMissingRecord ==
    \E id \in Ids :
        /\ Deleted(id)
        /\ deliveries[id] = 2
        /\ wpc[id] = "idle"
        /\ jobs[id].state = "failed"

\* C34: every published payload of an item carries a state that a successful
\* create or update of that item produced before it: a worker publication
\* follows its own store write in the same call, the scheduler publishes the
\* created row, and a rejected update publishes nothing, writes nothing and
\* throws to the worker.
PublishedFollowsStoreWrite ==
    /\ [](\A id \in Ids :
             \A k \in 1..Len(published[id]) :
                 \E j \in 1..Len(hist[id]) :
                     published[id][k] = Payload(id, hist[id][j]))
    /\ [][\A id \in Ids :
             /\ published'[id] # published[id]
                   => /\ published'[id] = Append(published[id], Last(published'[id]))
                      /\ \/ /\ hist'[id] # hist[id]
                            /\ Last(published'[id]) = Payload(id, Last(hist'[id]))
                         \/ /\ schedPc[id] = "enqueued"
                            /\ hist[id] # <<>>
                            /\ Last(published'[id]) = Payload(id, hist[id][1])
             /\ (/\ wpc[id] \in {"start", "sendOk", "decide"}
                 /\ UpdateRejects(events[id])
                 /\ wpc'[id] # wpc[id])
                   => /\ wpc'[id] = "thrown"
                      /\ published'[id] = published[id]
                      /\ hist'[id] = hist[id]]_vars

\* C34 witness: the SENT update was rejected after the SCHEDULED and the
\* PROCESSING publication, and nothing else was published
SentUpdateRejectedUnpublished ==
    \E id \in Ids :
        /\ Deleted(id)
        /\ sends[id] = <<TRUE>>
        /\ wpc[id] = "thrown"
        /\ Len(hist[id]) = 2
        /\ Len(published[id]) = 2

\* C39: a server's registry holds exactly the connections it accepted that
\* have not emitted close: connect adds the connection, close removes it, no
\* connection is registered on two servers, and a closed connection is sent
\* nothing more.
RegistryIsOpenConnections ==
    /\ [](\A s \in Servers :
             clients[s] = {o \in Observers :
                             home[o] = s /\ ready[o] \in {"OPEN", "CLOSING"}})
    /\ [](\A o \in Observers :
             Cardinality({s \in Servers : o \in clients[s]}) <= 1)
    /\ [][\A o \in Observers :
             /\ (ready[o] = "NONE" /\ ready'[o] # "NONE")
                   => (ready'[o] = "OPEN" /\ o \in clients'[home'[o]])
             /\ (ready[o] # "CLOSED" /\ ready'[o] = "CLOSED")
                   => (o \in clients[home[o]] /\ o \notin clients'[home[o]])
             /\ ready[o] = "CLOSED"
                   => (ready'[o] = "CLOSED" /\ received'[o] = received[o])]_vars

\* C39 witness: a closed connection is out of its server's registry while
\* another connection of the same server is open and was relayed an update
\* the closed one never got
ClosedClientLeftOut ==
    \E o, p \in Observers :
        /\ ready[o] = "CLOSED"
        /\ o \notin clients[home[o]]
        /\ home[p] = home[o]
        /\ ready[p] = "OPEN"
        /\ clients[home[o]] = {p}
        /\ FramesFor(o, 1) = <<>>
        /\ Len(FramesFor(p, 1)) = Len(published[1])
        /\ published[1] # <<>>

\* the scheduler's broadcast of item id happens in this step
SchedulerBroadcasts(id) == schedPc[id] = "enqueued" /\ schedPc'[id] = "done"

\* an updateEventStatus call of the worker for item id succeeds in this step
WorkerBroadcasts(id) == hist[id] # <<>> /\ hist'[id] # hist[id]

\* the step sends the payload over the bus and to no client directly
BusRouteOnly(payload) ==
    /\ inbox' = [s \in Servers |->
                   IF s \in subscribed THEN Append(inbox[s], payload)
                   ELSE inbox[s]]
    /\ received' = received

\* the step sends the payload to the open clients of proc and not over the bus
DirectRouteOnly(proc, payload) ==
    /\ inbox' = inbox
    /\ received' = [o \in Observers |->
                      IF proc \in Servers /\ o \in clients[proc] /\ ready[o] = "OPEN"
                      THEN Append(received[o], Frame(payload))
                      ELSE received[o]]

\* C35: each broadcastEventUpdate call takes exactly one route: a process with
\* a bus publisher publishes and sends nothing directly, a process without
\* one sends to its own open clients and publishes nothing; so no observer
\* receives the frame of an update twice.
OneRoutePerBroadcast ==
    /\ [][\A id \in Ids :
             /\ SchedulerBroadcasts(id)
                   => IF ApiServer \in publisher
                      THEN BusRouteOnly(Last(published'[id]))
                      ELSE DirectRouteOnly(ApiServer, Last(published'[id]))
             /\ WorkerBroadcasts(id)
                   => IF Worker \in publisher
                      THEN BusRouteOnly(Last(published'[id]))
                      ELSE DirectRouteOnly(Worker, Last(published'[id]))]_vars
    /\ [](\A o \in Observers : \A id \in Ids :
             \A i, j \in 1..Len(FramesFor(o, id)) :
                 FramesFor(o, id)[i] = FramesFor(o, id)[j] => i = j)

\* C35 witness: an observer on a server that publishes and subscribes holds
\* the frame of every update of the item, each once
BusRouteDeliveredOnce ==
    \E o \in Observers :
        /\ ready[o] = "OPEN"
        /\ home[o] = ApiServer
        /\ ApiServer \in publisher
        /\ ApiServer \in subscribed
        /\ Worker \in publisher
        /\ Len(published[1]) = 3
        /\ FramesFor(o, 1) = [k \in 1..3 |-> Frame(published[1][k])]

\* a server without a publisher sent the scheduler's update to its own client
DirectRouteDelivered ==
    \E o \in Observers :
        /\ ready[o] = "OPEN"
        /\ home[o] = ApiServer
        /\ ApiServer \notin publisher
        /\ schedPc[1] = "done"
        /\ FramesFor(o, 1) = <<Frame(Payload(1, CreateEvent))>>

====
